---- MODULE Spec2Model ----
(***************************************************************************)
(* A model of math::geometry::CatmullRomSpline                             *)
(* (src/common/math/geometry/src/spline/catmull_rom_spline.cpp).           *)
(*                                                                         *)
(* Numbers.  The code computes in double.  The model computes exactly, in  *)
(* fixed point with two steps per unit: the integer k stands for k/2.      *)
(* Control points have whole coordinates (even integers here), so that     *)
(* the constructor's "* 0.5" is exact.  Arc lengths, resolutions and       *)
(* offsets use the same representation, so 1.0 is FromInt(1) = 2.          *)
(*                                                                         *)
(* An optional<double> is a sequence of length at most 1: <<>> is nullopt. *)
(***************************************************************************)
EXTENDS Integers, Sequences, FiniteSets, TLC

VARIABLES
  control_points,   \* CatmullRomSpline::control_points
  line_segments_,   \* CatmullRomSpline::line_segments_
  curves_,          \* CatmullRomSpline::curves_ (the Hermite segments)
  length_list_,     \* CatmullRomSpline::length_list_
  total_length_,    \* CatmullRomSpline::total_length_: <<v>>, or <<>> while unassigned
  maximum_2d_curvatures_,  \* CatmullRomSpline::maximum_2d_curvatures_
  status,           \* "new" | "constructed" | "failed" (the constructor threw)
  call,             \* the last completed query: its arguments and its outcome
  tr,               \* the activation of getTrajectory: its locals and position
  list_,            \* JobList::list_: the jobs appended, in order
  job_call,         \* the last call of append or update on the JobList
  blackboard,       \* the output ports of FollowLaneAction
  ticked,           \* the last tick of FollowLaneAction: its inputs and its outcome
  scope,            \* the Scope that ParameterDeclaration inserts into
  declared          \* the last ParameterDeclaration built: its inputs and its outcome

vars == <<control_points, line_segments_, curves_, length_list_, total_length_,
          maximum_2d_curvatures_, status, call, tr,
          list_, job_call, blackboard, ticked, scope, declared>>

members == <<control_points, line_segments_, curves_, length_list_, total_length_,
             maximum_2d_curvatures_>>

\* the state of the spline and of its calls
splineVars == <<members, status, call, tr>>

\* the state of the other components
jobVars == <<list_, job_call>>
nodeVars == <<blackboard, ticked>>
declarationVars == <<scope, declared>>
apart == <<jobVars, nodeVars, declarationVars>>

---------------------------------------------------------------------------
(* Bounds of the model *)

\* the longest control-point list
MaxPoints == 4
\* a sampled curve is cut into this many chords when its length is measured
LengthSamples == 4
\* queries ask for arc lengths from -SMargin to total_length_ + SMargin
SMargin == 3
\* the largest segment-local value a segment's collision query answers
MaxHit == 2
\* the most edges a polygon has
MaxEdges == 2
\* getTrajectory is followed until its vector holds this many points
MaxRet == 12
MaxNumPoints == 3
MaxCurvature == 2
MaxJobs == 3
MaxReturnsTrueAt == 2
MaxScope == 2
MaxConstraintGroups == 2

---------------------------------------------------------------------------
(* Arithmetic *)

FromInt(n) == 2 * n

Abs(x) == IF x < 0 THEN -x ELSE x

\* x * 0.5, exact on the even numbers the constructor applies it to
Half(x) == x \div 2

\* the least n with n >= x / d, for d > 0
CeilDiv(x, d) == IF x <= 0 THEN 0 ELSE ((x - 1) \div d) + 1

RECURSIVE ISqrtBetween(_, _, _)
\* the r with r * r <= x < (r + 1) * (r + 1), given lo * lo <= x < hi * hi
ISqrtBetween(x, lo, hi) ==
  IF hi - lo <= 1 THEN lo
  ELSE LET mid == (lo + hi) \div 2
       IN IF mid * mid <= x THEN ISqrtBetween(x, mid, hi) ELSE ISqrtBetween(x, lo, mid)

\* the integer part of sqrt(x); x stays below 2^30
ISqrt(x) == ISqrtBetween(x, 0, 32768)

RECURSIVE SumSeq(_, _)
\* s[1] + ... + s[n]
SumSeq(s, n) == IF n = 0 THEN 0 ELSE SumSeq(s, n - 1) + s[n]

Min(S) == CHOOSE x \in S : \A y \in S : x <= y
Max(S) == CHOOSE x \in S : \A y \in S : x >= y

None == <<>>
Some(v) == <<v>>

---------------------------------------------------------------------------
(* Control points *)

Pt(x, y, z) == [x |-> FromInt(x), y |-> FromInt(y), z |-> FromInt(z)]

\* the points a control-point list is drawn from
PointSet == {Pt(0, 0, 0), Pt(1, 0, 0), Pt(1, 1, 1), Pt(3, 1, 0)}

RECURSIVE SeqsUpTo(_, _)
\* the sequences over S of length at most n
SeqsUpTo(S, n) ==
  IF n = 0 THEN {<<>>}
  ELSE LET shorter == SeqsUpTo(S, n - 1)
       IN shorter \cup {Append(q, e) : q \in {p \in shorter : Len(p) = n - 1}, e \in S}

\* four collinear points, ten units apart
CollinearScenario == <<Pt(0, 0, 0), Pt(10, 0, 0), Pt(20, 0, 0), Pt(30, 0, 0)>>

ControlPointLists == SeqsUpTo(PointSet, MaxPoints) \cup {CollinearScenario}

---------------------------------------------------------------------------
(* HermiteCurve: one cubic per axis, a t^3 + b t^2 + c t + d *)

\* the four coefficients of each axis
Coefficients(ax, bx, cx, dx, ay, by, cy, dy, az, bz, cz, dz) ==
  [x |-> <<ax, bx, cx, dx>>, y |-> <<ay, by, cy, dy>>, z |-> <<az, bz, cz, dz>>]

\* den^3 times the cubic co at t = k / den
CubicAt(co, k, den) ==
  co[1] * k * k * k + co[2] * k * k * den + co[3] * k * den * den
    + co[4] * den * den * den

\* den^3 times the curve's point at t = k / den
HermitePointAt(curve, k, den) ==
  [x |-> CubicAt(curve.x, k, den), y |-> CubicAt(curve.y, k, den),
   z |-> CubicAt(curve.z, k, den)]

\* HermiteCurve::getPoint(t, false) for a whole t
HermiteGetPoint(curve, t) == HermitePointAt(curve, t, 1)

\* the length of the chord from p to q, in the unit of their coordinates
ChordLength(p, q) ==
  ISqrt((q.x - p.x) * (q.x - p.x) + (q.y - p.y) * (q.y - p.y)
          + (q.z - p.z) * (q.z - p.z))

\* HermiteCurve::getLength(): the chords between LengthSamples + 1 samples
HermiteGetLength(curve) ==
  LET den == LengthSamples
      chords == [k \in 1..den |->
                   ChordLength(HermitePointAt(curve, k - 1, den),
                               HermitePointAt(curve, k, den))]
  IN SumSeq(chords, den) \div (den * den * den)

\* HermiteCurve's constructor: the coefficients, and the length it caches
HermiteCurve(ax, bx, cx, dx, ay, by, cy, dy, az, bz, cz, dz) ==
  LET co == Coefficients(ax, bx, cx, dx, ay, by, cy, dy, az, bz, cz, dz)
  IN [x |-> co.x, y |-> co.y, z |-> co.z, length |-> HermiteGetLength(co)]

\* HermiteCurve::getLength()
getLength(curve) == curve.length

\* HermiteCurve::getPoint(s, true): s is an arc length from the start of the
\* segment, and the cubic is taken at t = s / getLength().  The point is
\* num / den on each axis; den is 0 on a segment of length 0 (t is 0 / 0)
HermiteGetPointAutoscale(curve, s) ==
  LET length == getLength(curve)
  IN [num |-> HermitePointAt(curve, s, length), den |-> length * length * length]

---------------------------------------------------------------------------
(* CatmullRomSpline::CatmullRomSpline *)

\* first-segment coefficients whose linear term adds control_points[2]
FirstCoefficients_SignSlip(p0, p1, p2) ==
  <<Half(0), Half(p0 - 2 * p1 + p2), Half(-3 * p0 + 4 * p1 + p2), Half(2 * p0)>>

\* a first segment that runs straight from p0 to p1
FirstCoefficients_Straight(p0, p1, p2) ==
  <<Half(0), Half(0), Half(2 * p1 - 2 * p0), Half(2 * p0)>>

\* the first segment's coefficients on one axis (i == 0)
FirstCoefficients(p0, p1, p2) ==
  <<Half(0), Half(p0 - 2 * p1 + p2), Half(-3 * p0 + 4 * p1 - p2), Half(2 * p0)>>

\* a last segment that runs straight from p0 to p1
LastCoefficients_Straight(pm, p0, p1) ==
  <<Half(0), Half(0), Half(2 * p1 - 2 * p0), Half(2 * p0)>>

\* the last segment's coefficients on one axis (i == n - 1)
LastCoefficients(pm, p0, p1) ==
  <<Half(0), Half(pm - 2 * p0 + p1), Half(-1 * pm + p1), Half(2 * p0)>>

\* an interior segment's coefficients on one axis
MiddleCoefficients(pm, p0, p1, p2) ==
  <<Half(-1 * pm + 3 * p0 - 3 * p1 + p2), Half(2 * pm - 5 * p0 + 4 * p1 - p2),
    Half(-pm + p1), Half(2 * p0)>>

FromAxes(cx, cy, cz) ==
  HermiteCurve(cx[1], cx[2], cx[3], cx[4], cy[1], cy[2], cy[3], cy[4],
               cz[1], cz[2], cz[3], cz[4])

\* the loop of the constructor's default case; cp[i + 1] is control_points[i]
BuildCurves(cp) ==
  LET n == Len(cp) - 1
  IN [j \in 1..n |->
        LET i == j - 1
        IN IF i = 0
           THEN FromAxes(FirstCoefficients(cp[1].x, cp[2].x, cp[3].x),
                         FirstCoefficients(cp[1].y, cp[2].y, cp[3].y),
                         FirstCoefficients(cp[1].z, cp[2].z, cp[3].z))
           ELSE IF i = n - 1
           THEN FromAxes(LastCoefficients(cp[i].x, cp[i + 1].x, cp[i + 2].x),
                         LastCoefficients(cp[i].y, cp[i + 1].y, cp[i + 2].y),
                         LastCoefficients(cp[i].z, cp[i + 1].z, cp[i + 2].z))
           ELSE FromAxes(
                  MiddleCoefficients(cp[i].x, cp[i + 1].x, cp[i + 2].x, cp[i + 3].x),
                  MiddleCoefficients(cp[i].y, cp[i + 1].y, cp[i + 2].y, cp[i + 3].y),
                  MiddleCoefficients(cp[i].z, cp[i + 1].z, cp[i + 2].z, cp[i + 3].z))]

\* CatmullRomSpline::equals: the tolerance is below the model's step of 1/2
equals(p0, p1) == p0.x = p1.x /\ p0.y = p1.y /\ p0.z = p1.z

\* CatmullRomSpline::checkConnection: "ok", or the error it throws
checkConnection(cp, curves) ==
  LET bad == {i \in 1..Len(curves) :
                ~(equals(cp[i], HermiteGetPoint(curves[i], 0))
                    /\ equals(cp[i + 1], HermiteGetPoint(curves[i], 1)))}
  IN IF Len(cp) # Len(curves) + 1 THEN "number of control points and curves does not match"
     ELSE IF bad # {}
     THEN IF ~equals(cp[Min(bad)], HermiteGetPoint(curves[Min(bad)], 0))
          THEN "start point does not match"
          ELSE "end point does not match"
     ELSE IF Len(curves) = 0 THEN "curve size should not be zero"
     ELSE "ok"

\* getLineSegments: the segments between consecutive points
getLineSegments(points) ==
  [i \in 1..(IF Len(points) = 0 THEN 0 ELSE Len(points) - 1) |->
     [start_point |-> points[i], end_point |-> points[i + 1]]]

\* a double member no constructor branch has assigned holds <<>>, and <<v>>
\* once v is assigned to it
Indeterminate == <<>>

\* maximum_2d_curvatures_ after the constructor's loop: entry i caches what
\* curves_[i].getMaximum2DCurvature() returned; the number behind it is given
\* where the table is read
CurvatureTable(curves) == [i \in 1..Len(curves) |-> [cached |-> i]]

\* a constructor whose switch has no case for an empty list
ConstructorError_EmptyAccepted(cp, curves) ==
  IF Len(cp) <= 2 THEN "ok" ELSE checkConnection(cp, curves)

\* the constructor's switch on control_points.size(): "ok", or the error thrown
ConstructorError(cp, curves) ==
  IF Len(cp) = 0 THEN "Control points are empty"
  ELSE IF Len(cp) <= 2 THEN "ok"
  ELSE checkConnection(cp, curves)

\* the constructor: the members it leaves and whether it threw
Construct(cp) ==
  LET curves == IF Len(cp) >= 3 THEN BuildCurves(cp) ELSE <<>>
      lengths == [i \in 1..Len(curves) |-> getLength(curves[i])]
  IN [curves |-> curves,
      lengths |-> lengths,
      total |-> IF Len(cp) >= 3 THEN <<SumSeq(lengths, Len(lengths))>> ELSE Indeterminate,
      error |-> ConstructorError(cp, curves)]

---------------------------------------------------------------------------
(* The queries.  An outcome is "ok", "error" (the call threw) or            *)
(* "out_of_range" (the call indexed curves_ outside its bounds).            *)

\* the values a read of total_length_ may yield
TotalLengthReads ==
  IF total_length_ = Indeterminate THEN {0, SMargin + 1} ELSE {total_length_[1]}

RECURSIVE IndexScan_GlobalS(_, _, _)
\* a scan that returns s itself, not s - prev_s
IndexScan_GlobalS(s, i, current_s) ==
  IF i >= Len(curves_) THEN [outcome |-> "error", index |-> 0, s |-> 0]
  ELSE IF current_s <= s /\ s < current_s + length_list_[i + 1]
  THEN [outcome |-> "ok", index |-> i, s |-> s]
  ELSE IndexScan_GlobalS(s, i + 1, current_s + length_list_[i + 1])

RECURSIVE IndexScan_StrictLower(_, _, _)
\* a scan whose segments leave out their own start (prev_s < s)
IndexScan_StrictLower(s, i, current_s) ==
  IF i >= Len(curves_) THEN [outcome |-> "error", index |-> 0, s |-> 0]
  ELSE LET prev_s == current_s
           next_s == current_s + length_list_[i + 1]
       IN IF prev_s < s /\ s < next_s
          THEN [outcome |-> "ok", index |-> i, s |-> s - prev_s]
          ELSE IndexScan_StrictLower(s, i + 1, next_s)

RECURSIVE IndexScan(_, _, _)
\* the loop of getCurveIndexAndS from i on, current_s being the lengths before i
IndexScan(s, i, current_s) ==
  IF i >= Len(curves_) THEN [outcome |-> "error", index |-> 0, s |-> 0]
  ELSE LET prev_s == current_s
           next_s == current_s + length_list_[i + 1]
       IN IF prev_s <= s /\ s < next_s
          THEN [outcome |-> "ok", index |-> i, s |-> s - prev_s]
          ELSE IndexScan(s, i + 1, next_s)

\* a resolution that, past the end, forgets the last segment's length
getCurveIndexAndS_EndOffset(s, total_length) ==
  IF s < 0 THEN [outcome |-> "ok", index |-> 0, s |-> s]
  ELSE IF s >= total_length
  THEN IF Len(curves_) = 0
       THEN [outcome |-> "out_of_range", index |-> 0, s |-> 0]
       ELSE [outcome |-> "ok", index |-> Len(curves_) - 1, s |-> s - total_length]
  ELSE IndexScan(s, 0, 0)

\* a resolution that clamps s to the ends of the spline
getCurveIndexAndS_Clamped(s, total_length) ==
  IF s < 0 THEN [outcome |-> "ok", index |-> 0, s |-> 0]
  ELSE IF s >= total_length
  THEN IF Len(curves_) = 0
       THEN [outcome |-> "out_of_range", index |-> 0, s |-> 0]
       ELSE [outcome |-> "ok", index |-> Len(curves_) - 1,
             s |-> getLength(curves_[Len(curves_)])]
  ELSE IndexScan(s, 0, 0)

\* CatmullRomSpline::getCurveIndexAndS(s), total_length being what the read of
\* total_length_ yields; indices count from 0 as in the code
getCurveIndexAndS(s, total_length) ==
  IF s < 0 THEN [outcome |-> "ok", index |-> 0, s |-> s]
  ELSE IF s >= total_length
  THEN IF Len(curves_) = 0
       THEN [outcome |-> "out_of_range", index |-> 0, s |-> 0]
       ELSE [outcome |-> "ok", index |-> Len(curves_) - 1,
             s |-> s - (total_length - getLength(curves_[Len(curves_)]))]
  ELSE IndexScan(s, 0, 0)

RECURSIVE SInSplineScan_Inclusive(_, _, _, _)
\* a scan that adds the length of segment curve_index itself
SInSplineScan_Inclusive(curve_index, s, i, ret) ==
  IF i >= Len(curves_) THEN [outcome |-> "error", value |-> 0]
  ELSE IF i = curve_index
  THEN [outcome |-> "ok", value |-> ret + getLength(curves_[i + 1]) + s]
  ELSE SInSplineScan_Inclusive(curve_index, s, i + 1, ret + getLength(curves_[i + 1]))

RECURSIVE SInSplineScan(_, _, _, _)
\* the loop of getSInSplineCurve from i on, ret being the lengths before i
SInSplineScan(curve_index, s, i, ret) ==
  IF i >= Len(curves_) THEN [outcome |-> "error", value |-> 0]
  ELSE IF i = curve_index THEN [outcome |-> "ok", value |-> ret + s]
  ELSE SInSplineScan(curve_index, s, i + 1, ret + getLength(curves_[i + 1]))

\* CatmullRomSpline::getSInSplineCurve(curve_index, s)
getSInSplineCurve(curve_index, s) == SInSplineScan(curve_index, s, 0, 0)

\* curves_[index].f(s, true) for f one of getPoint, getNormalVector, ...: the
\* call handed to the segment, or the access outside curves_
SegmentCall(r) ==
  IF r.outcome # "ok" THEN [outcome |-> r.outcome, at |-> <<>>]
  ELSE IF r.index >= Len(curves_) THEN [outcome |-> "out_of_range", at |-> <<>>]
  ELSE [outcome |-> "ok", at |-> <<r.index, r.s>>]

\* CatmullRomSpline::getPoint(s)
getPoint(s, total_length) == SegmentCall(getCurveIndexAndS(s, total_length))

\* CatmullRomSpline::getNormalVector(s)
getNormalVector(s, total_length) == SegmentCall(getCurveIndexAndS(s, total_length))

\* CatmullRomSpline::getTangentVector(s)
getTangentVector(s, total_length) == SegmentCall(getCurveIndexAndS(s, total_length))

\* CatmullRomSpline::getPose(s)
getPose(s, total_length) == SegmentCall(getCurveIndexAndS(s, total_length))

\* CatmullRomSpline::getSquaredDistanceIn2D(point, s)
getSquaredDistanceIn2D(s, total_length) == SegmentCall(getCurveIndexAndS(s, total_length))

\* CatmullRomSpline::getSquaredDistanceVector(point, s)
getSquaredDistanceVector(s, total_length) ==
  SegmentCall(getCurveIndexAndS(s, total_length))

\* the value of getPoint(s): what the segment called returns
PointValue(c) ==
  IF c.outcome = "ok" THEN HermiteGetPointAutoscale(curves_[c.at[1] + 1], c.at[2])
  ELSE <<>>

\* p moved by offset along the heading of the normal vec: p itself when
\* offset is 0, as offset * cos(theta) and offset * sin(theta) are 0 then
Displaced(p, offset, vec) ==
  IF offset = 0 THEN p ELSE [from |-> p, offset |-> offset, along |-> vec]

\* CatmullRomSpline::getPoint(s, offset)
getPointOffset(s, offset, total_length) ==
  LET vec == getNormalVector(s, total_length)
      p == getPoint(s, total_length)
  IN IF vec.outcome # "ok" THEN vec
     ELSE IF p.outcome # "ok" THEN p
     ELSE [outcome |-> "ok", at |-> Displaced(p.at, offset, vec.at)]

---------------------------------------------------------------------------
(* Bounds of the road.  A bound point is kept as the code composes it: the   *)
(* segment call of getPoint(s) it starts from, the segment call of           *)
(* getNormalVector(s) whose heading theta gives the unit direction           *)
(* (cos theta, sin theta), the signed length laid along that direction, and  *)
(* the z offset added to the point's z.                                      *)

\* the lambda of getRightBounds and of getLeftBounds: sign is 1 where the code
\* adds 0.5 * width * cos(theta), -1 where it subtracts
BoundPoint(sign, width, s, z_offset, total_length) ==
  LET vec == getNormalVector(s, total_length)
      p == getPoint(s, total_length)
  IN IF vec.outcome # "ok" THEN [outcome |-> vec.outcome]
     ELSE IF p.outcome # "ok" THEN [outcome |-> p.outcome]
     ELSE [outcome |-> "ok",
           point |-> [from |-> p.at, along |-> vec.at,
                      lateral |-> sign * Half(width), z_offset |-> z_offset]]

\* the loop of getRightBounds and of getLeftBounds, count iterations long.
\* With num_points = 0 step_size is a division by zero and s = step_size * 0
\* is NaN, which fails every comparison of getCurveIndexAndS: it throws
BoundsLoop(sign, width, num_points, count, z_offset, total_length) ==
  IF num_points = 0 THEN [outcome |-> "error", points |-> <<>>]
  ELSE LET step_size == total_length \div num_points
           made == [i \in 1..count |->
                      BoundPoint(sign, width, step_size * (i - 1), z_offset,
                                 total_length)]
           failed == {i \in 1..count : made[i].outcome # "ok"}
       IN IF failed # {}
          THEN [outcome |-> made[Min(failed)].outcome, points |-> <<>>]
          ELSE [outcome |-> "ok", points |-> [i \in 1..count |-> made[i].point]]

\* CatmullRomSpline::getRightBounds(width, num_points, z_offset)
getRightBounds(width, num_points, z_offset, total_length) ==
  BoundsLoop(1, width, num_points, num_points + 1, z_offset, total_length)

\* getLeftBounds stopping one sample short of the end
getLeftBounds_OneShort(width, num_points, z_offset, total_length) ==
  BoundsLoop(-1, width, num_points, num_points, z_offset, total_length)

\* getLeftBounds laying the left bound on the right side
getLeftBounds_SameSide(width, num_points, z_offset, total_length) ==
  BoundsLoop(1, width, num_points, num_points + 1, z_offset, total_length)

\* CatmullRomSpline::getLeftBounds(width, num_points, z_offset)
getLeftBounds(width, num_points, z_offset, total_length) ==
  BoundsLoop(-1, width, num_points, num_points + 1, z_offset, total_length)

\* the j-th point of a polygon whose second triangle starts at the right bound
PolygonVertex_RightFirst(left_bounds, right_bounds, j) ==
  LET i == (j - 1) \div 6
      k == (j - 1) % 6
  IN CASE k = 0 -> right_bounds[i + 1]
       [] k = 1 -> left_bounds[i + 1]
       [] k = 2 -> right_bounds[i + 2]
       [] k = 3 -> right_bounds[i + 1]
       [] k = 4 -> left_bounds[i + 2]
       [] OTHER -> right_bounds[i + 2]

\* the j-th point (from 1) getPolygon emplaces: iteration i = (j - 1) / 6 of
\* its loop emplaces pr_0, pl_0, pr_1, pl_0, pl_1, pr_1
PolygonVertex(left_bounds, right_bounds, j) ==
  LET i == (j - 1) \div 6
      k == (j - 1) % 6
  IN CASE k = 0 -> right_bounds[i + 1]
       [] k = 1 -> left_bounds[i + 1]
       [] k = 2 -> right_bounds[i + 2]
       [] k = 3 -> left_bounds[i + 1]
       [] k = 4 -> left_bounds[i + 2]
       [] OTHER -> right_bounds[i + 2]

\* CatmullRomSpline::getPolygon(width, num_points, z_offset)
getPolygon(width, num_points, z_offset, total_length) ==
  LET left_bounds == getLeftBounds(width, num_points, z_offset, total_length)
      right_bounds == getRightBounds(width, num_points, z_offset, total_length)
  IN IF left_bounds.outcome # "ok"
     THEN [outcome |-> left_bounds.outcome, points |-> <<>>]
     ELSE IF right_bounds.outcome # "ok"
     THEN [outcome |-> right_bounds.outcome, points |-> <<>>]
     ELSE [outcome |-> "ok",
           points |-> [j \in 1..(6 * (Len(left_bounds.points) - 1)) |->
                         PolygonVertex(left_bounds.points, right_bounds.points, j)]]

---------------------------------------------------------------------------
(* Collision queries.  What a segment (a HermiteCurve, or the LineSegment    *)
(* of a two-point spline) answers for the queried shape is an input:         *)
(* answers[k] is the optional segment-local value of the k-th answer.        *)

Optionals == {None} \cup {Some(v) : v \in 0..MaxHit}

RECURSIVE CurveCollisionScan_ForwardOnly(_, _, _)
\* a scan that visits the segments in increasing order whatever the direction
CurveCollisionScan_ForwardOnly(answers, search_backward, i) ==
  IF i >= Len(curves_) THEN [outcome |-> "ok", value |-> None]
  ELSE IF answers[i + 1] # None
  THEN LET g == getSInSplineCurve(i, answers[i + 1][1])
       IN [outcome |-> g.outcome, value |-> Some(g.value)]
  ELSE CurveCollisionScan_ForwardOnly(answers, search_backward, i + 1)

RECURSIVE CurveCollisionScan(_, _, _)
\* the loop over curves_ from i on, in either overload of getCollisionPointIn2D
CurveCollisionScan(answers, search_backward, i) ==
  LET n == Len(curves_)
      at == IF search_backward THEN n - 1 - i ELSE i
  IN IF i >= n THEN [outcome |-> "ok", value |-> None]
     ELSE IF answers[at + 1] # None
     THEN LET g == getSInSplineCurve(at, answers[at + 1][1])
          IN [outcome |-> g.outcome, value |-> Some(g.value)]
     ELSE CurveCollisionScan(answers, search_backward, i + 1)

\* get_collision_point_2d_with_curve, and the body of the two-point overload
get_collision_point_2d_with_curve(answers, search_backward) ==
  CurveCollisionScan(answers, search_backward, 0)

\* get_collision_point_2d_with_line taking the first candidate
get_collision_point_2d_with_line_FirstCandidate(answers, search_backward) ==
  LET hits == {j \in 1..Len(answers) : answers[j] # None}
  IN IF hits = {} THEN [outcome |-> "ok", value |-> None]
     ELSE [outcome |-> "ok", value |-> answers[Min(hits)]]

\* get_collision_point_2d_with_line: answers holds, per edge of the polygon,
\* what line_segments_[0].getIntersection2DSValue(edge) returns
get_collision_point_2d_with_line(answers, search_backward) ==
  LET s_value_candidates == {answers[k][1] : k \in {j \in 1..Len(answers) : answers[j] # None}}
  IN IF s_value_candidates = {} THEN [outcome |-> "ok", value |-> None]
     ELSE [outcome |-> "ok",
           value |-> Some(IF search_backward THEN Max(s_value_candidates)
                          ELSE Min(s_value_candidates))]

\* get_collision_point_2d_with_point answering the start of the spline
get_collision_point_2d_with_point_AtStart(answers, search_backward) ==
  [outcome |-> "ok", value |-> Some(0)]

\* get_collision_point_2d_with_point
get_collision_point_2d_with_point(answers, search_backward) ==
  [outcome |-> "ok", value |-> None]

\* CatmullRomSpline::getCollisionPointIn2D(polygon, search_backward)
getCollisionPointIn2D_polygon(answers, search_backward) ==
  IF Len(control_points) = 0 THEN [outcome |-> "error", value |-> None]
  ELSE IF Len(control_points) = 1
  THEN get_collision_point_2d_with_point(answers, search_backward)
  ELSE IF Len(control_points) = 2
  THEN get_collision_point_2d_with_line(answers, search_backward)
  ELSE get_collision_point_2d_with_curve(answers, search_backward)

\* CatmullRomSpline::getCollisionPointIn2D(point0, point1, search_backward)
getCollisionPointIn2D_points(answers, search_backward) ==
  CurveCollisionScan(answers, search_backward, 0)

\* the parameters of a segment that the fixed point holds: t = k / FromInt(1)
Parameters == 0..FromInt(1)

\* whether the point num / den lies on the segment from p0 to p1 in 2D
OnSegment2D(num, den, p0, p1) ==
  LET dx == p1.x - p0.x
      dy == p1.y - p0.y
      rx == num.x - den * p0.x
      ry == num.y - den * p0.y
      along == dx * rx + dy * ry
  IN /\ dx * ry - dy * rx = 0
     /\ 0 <= along
     /\ along <= den * (dx * dx + dy * dy)

\* HermiteCurve::getCollisionPointIn2D(point0, point1, search_backward): the
\* parameter t at which the segment crosses the line from point0 to point1,
\* the smallest one searching forward, the largest searching backward.
\* Crossings are looked for at the parameters the fixed point holds
HermiteCollisionWithSegment(curve, point0, point1, search_backward) ==
  LET den == FromInt(1) * FromInt(1) * FromInt(1)
      crossings == {k \in Parameters :
                      OnSegment2D(HermitePointAt(curve, k, FromInt(1)), den,
                                  point0, point1)}
  IN IF crossings = {} THEN None
     ELSE Some(IF search_backward THEN Max(crossings) ELSE Min(crossings))

\* LineSegment: whether the segments a and b meet in 2D, at one point within
\* the extent of both (parallel segments do not)
SegmentsIntersect2D(a, b) ==
  LET ax == a.end_point.x - a.start_point.x
      ay == a.end_point.y - a.start_point.y
      bx == b.end_point.x - b.start_point.x
      by == b.end_point.y - b.start_point.y
      sx == b.start_point.x - a.start_point.x
      sy == b.start_point.y - a.start_point.y
      det == ax * by - ay * bx
      on_a == sx * by - sy * bx
      on_b == sx * ay - sy * ax
      Within(num) == IF det > 0 THEN 0 <= num /\ num <= det
                     ELSE det <= num /\ num <= 0
  IN det # 0 /\ Within(on_a) /\ Within(on_b)

\* what each segment of curves_ answers for the line from point0 to point1
SegmentAnswers(point0, point1, search_backward) ==
  [i \in 1..Len(curves_) |->
     HermiteCollisionWithSegment(curves_[i], point0, point1, search_backward)]

\* the loop of getSValue going on to the last segment that answers
SValueScan_LastHit(answers, i, s) ==
  LET hits == {j \in 1..Len(curves_) : answers[j] # None}
  IN IF hits = {} THEN [value |-> None, examined |-> Len(curves_)]
     ELSE [value |-> Some(SumSeq([j \in 1..Len(curves_) |-> getLength(curves_[j])],
                                 Max(hits) - 1) + answers[Max(hits)][1]),
           examined |-> Len(curves_)]

\* CatmullRomSpline::getSValue, the loop from segment i (1-based) with s the
\* lengths summed so far: answers[i] is what curves_[i].getSValue(pose,
\* threshold_distance, true) returns; examined counts the segments asked
RECURSIVE SValueScan(_, _, _)
SValueScan(answers, i, s) ==
  IF i > Len(curves_) THEN [value |-> None, examined |-> Len(curves_)]
  ELSE IF answers[i] # None
  THEN [value |-> Some(s + answers[i][1]), examined |-> i]
  ELSE SValueScan(answers, i + 1, s + getLength(curves_[i]))

\* CatmullRomSpline::getSValue(pose, threshold_distance)
getSValue(answers) == SValueScan(answers, 1, 0)

\* the numbers a cached curvature maximum may stand for
Curvatures == 0..MaxCurvature

\* std::max_element: the first of the greatest elements
MaxElement(values) ==
  values[Min({i \in 1..Len(values) : \A j \in 1..Len(values) : values[j] <= values[i]})]

\* getMaximum2DCurvature returning the front of the table
getMaximum2DCurvature_Front(values) ==
  IF maximum_2d_curvatures_ = <<>> THEN [outcome |-> "error", value |-> None]
  ELSE [outcome |-> "ok", value |-> Some(values[1])]

\* CatmullRomSpline::getMaximum2DCurvature(): values[i] is the number cached
\* in maximum_2d_curvatures_[i]
getMaximum2DCurvature(values) ==
  IF maximum_2d_curvatures_ = <<>> THEN [outcome |-> "error", value |-> None]
  ELSE [outcome |-> "ok", value |-> Some(MaxElement(values))]

\* how many answers a collision query draws: one per segment of a curve, one
\* per polygon edge for the polygon overload on a two-point spline
AnswerCounts(overload) ==
  IF overload = "polygon" /\ Len(control_points) = 2 THEN 0..MaxEdges
  ELSE {Len(curves_)}

---------------------------------------------------------------------------
(* The state machine *)

NoCall == [op |-> "none"]
Idle == [pc |-> "idle"]

\* JobList(): no job yet
NoJobCall == [op |-> "none"]

InitJobList == list_ = <<>> /\ job_call = NoJobCall

\* the ports FollowLaneAction::tick writes
OutputPorts == {"updated_status", "waypoints", "obstacle"}

Unset == [set |-> FALSE]
NoTick == [outcome |-> "none"]

\* a blackboard on which no tick has written
InitNode == blackboard = [port \in OutputPorts |-> Unset] /\ ticked = NoTick

NoDeclaration == [outcome |-> "none"]

\* an empty Scope
InitScope == scope = <<>> /\ declared = NoDeclaration

Init ==
  /\ InitJobList /\ InitNode /\ InitScope
  /\ maximum_2d_curvatures_ = <<>>
  /\ control_points \in ControlPointLists
  /\ line_segments_ = <<>>
  /\ curves_ = <<>>
  /\ length_list_ = <<>>
  /\ total_length_ = Indeterminate
  /\ status = "new"
  /\ call = NoCall
  /\ tr = Idle

\* CatmullRomSpline(control_points)
Constructor ==
  /\ status = "new"
  /\ LET c == Construct(control_points)
     IN /\ status' = IF c.error = "ok" THEN "constructed" ELSE "failed"
        /\ curves_' = c.curves
        /\ length_list_' = c.lengths
        /\ total_length_' = c.total
        /\ line_segments_' = getLineSegments(control_points)
        /\ maximum_2d_curvatures_' = CurvatureTable(c.curves)
        /\ call' = [op |-> "construct", error |-> c.error]
  /\ UNCHANGED <<control_points, tr, apart>>

\* a query is entered once the caller has taken the result of the one before
Ready == status = "constructed" /\ tr.pc = "idle" /\ call = NoCall

\* the caller takes the result of the completed call
Return ==
  /\ call # NoCall
  /\ call' = NoCall
  /\ UNCHANGED <<members, status, tr, apart>>

\* the arc lengths the queries ask for
QueryS ==
  (-SMargin)..((IF total_length_ = Indeterminate THEN 0 ELSE total_length_[1]) + SMargin)

\* a call of getCurveIndexAndS(s)
Resolve ==
  /\ Ready
  /\ \E s \in QueryS, total_length \in TotalLengthReads :
       call' = [op |-> "resolve", s |-> s, r |-> getCurveIndexAndS(s, total_length)]
  /\ UNCHANGED <<members, status, tr, apart>>

\* lines that cross the collinear spline at a control point, in the middle of
\* a segment or not at all, and stay clear of every other spline drawn
FarLines ==
  {<<Pt(10, -5, 0), Pt(10, 5, 0)>>, <<Pt(15, -5, 0), Pt(15, 5, 0)>>,
   <<Pt(40, -5, 0), Pt(40, 5, 0)>>}

\* lines among the control points drawn; they are put to splines of 1 or 2
\* control points, which hold no cubic segment
NearLines ==
  {<<Pt(1, -1, 0), Pt(1, 1, 0)>>, <<Pt(2, 0, 0), Pt(2, 2, 0)>>,
   <<Pt(0, 2, 0), Pt(3, 2, 0)>>}

QueryLines == IF Len(control_points) <= 2 THEN FarLines \cup NearLines ELSE FarLines

\* a call of getCollisionPointIn2D(point0, point1, search_backward) with a
\* line whose crossings the segments compute
CollisionWithLine ==
  /\ Ready
  /\ \E line \in QueryLines, search_backward \in BOOLEAN :
       call' = [op |-> "collision_line", point0 |-> line[1], point1 |-> line[2],
                search_backward |-> search_backward,
                answers |-> SegmentAnswers(line[1], line[2], search_backward),
                r |-> getCollisionPointIn2D_points(
                        SegmentAnswers(line[1], line[2], search_backward),
                        search_backward)]
  /\ UNCHANGED <<members, status, tr, apart>>

\* whole widths, which 0.5 * width halves exactly
Widths == {0, FromInt(1), FromInt(3)}

ZOffsets == {0, FromInt(1)}

\* the numbers of points for which step_size is exact in the fixed point
NumPoints(total_length) ==
  {n \in 0..MaxNumPoints : n = 0 \/ total_length % n = 0}

\* a call of getLeftBounds and one of getRightBounds with the same arguments
Bounds ==
  /\ Ready
  /\ \E width \in Widths, z_offset \in ZOffsets, total_length \in TotalLengthReads :
       \E num_points \in NumPoints(total_length) :
         call' = [op |-> "bounds", width |-> width, num_points |-> num_points,
                  z_offset |-> z_offset,
                  left |-> getLeftBounds(width, num_points, z_offset, total_length),
                  right |-> getRightBounds(width, num_points, z_offset, total_length)]
  /\ UNCHANGED <<members, status, tr, apart>>

\* getPolygon, which is not a const member, emptying length_list_
Polygon_DropsLengths ==
  /\ Ready
  /\ \E width \in Widths, z_offset \in ZOffsets, total_length \in TotalLengthReads :
       \E num_points \in NumPoints(total_length) :
         call' = [op |-> "polygon", width |-> width, num_points |-> num_points,
                  z_offset |-> z_offset,
                  r |-> getPolygon(width, num_points, z_offset, total_length)]
  /\ length_list_' = <<>>
  /\ UNCHANGED <<control_points, line_segments_, curves_, total_length_,
                 maximum_2d_curvatures_, status, tr, apart>>

\* a call of getPolygon(width, num_points, z_offset)
Polygon ==
  /\ Ready
  /\ \E width \in Widths, z_offset \in ZOffsets, total_length \in TotalLengthReads :
       \E num_points \in NumPoints(total_length) :
         call' = [op |-> "polygon", width |-> width, num_points |-> num_points,
                  z_offset |-> z_offset,
                  r |-> getPolygon(width, num_points, z_offset, total_length)]
  /\ UNCHANGED <<members, status, tr, apart>>

\* a call of getMaximum2DCurvature()
MaximumCurvature ==
  /\ Ready
  /\ \E values \in [1..Len(maximum_2d_curvatures_) -> Curvatures] :
       call' = [op |-> "getMaximum2DCurvature", values |-> values,
                r |-> getMaximum2DCurvature(values)]
  /\ UNCHANGED <<members, status, tr, apart>>

\* a call of getSValue(pose, threshold_distance)
ProjectPose ==
  /\ Ready
  /\ \E answers \in [1..Len(curves_) -> Optionals] :
       call' = [op |-> "getSValue", answers |-> answers, r |-> getSValue(answers)]
  /\ UNCHANGED <<members, status, tr, apart>>

\* the queries that hand s to one segment
SegmentQueries ==
  {"getPoint", "getPose", "getTangentVector", "getNormalVector",
   "getSquaredDistanceIn2D", "getSquaredDistanceVector"}

\* a call of getPoint(s), getPose(s), getTangentVector(s), getNormalVector(s),
\* getSquaredDistanceIn2D(point, s) or getSquaredDistanceVector(point, s)
Query ==
  /\ Ready
  /\ \E f \in SegmentQueries, s \in QueryS, total_length \in TotalLengthReads :
       LET c == CASE f = "getPoint" -> getPoint(s, total_length)
                  [] f = "getPose" -> getPose(s, total_length)
                  [] f = "getTangentVector" -> getTangentVector(s, total_length)
                  [] f = "getNormalVector" -> getNormalVector(s, total_length)
                  [] f = "getSquaredDistanceIn2D" -> getSquaredDistanceIn2D(s, total_length)
                  [] OTHER -> getSquaredDistanceVector(s, total_length)
       IN call' = [op |-> "query", f |-> f, s |-> s, r |-> c,
                   point |-> IF f = "getPoint" THEN PointValue(c) ELSE <<>>]
  /\ UNCHANGED <<members, status, tr, apart>>

\* a call of getSInSplineCurve(curve_index, s)
GlobalS ==
  /\ Ready
  /\ \E curve_index \in 0..MaxPoints, s \in (-1)..MaxHit :
       call' = [op |-> "globalS", curve_index |-> curve_index, s |-> s,
                r |-> getSInSplineCurve(curve_index, s)]
  /\ UNCHANGED <<members, status, tr, apart>>

\* a call of getCollisionPointIn2D, either overload
Collision ==
  /\ Ready
  /\ \E overload \in {"polygon", "points"}, search_backward \in BOOLEAN :
       \E n \in AnswerCounts(overload) :
         \E answers \in [1..n -> Optionals] :
           call' = [op |-> "collision", overload |-> overload,
                    search_backward |-> search_backward, answers |-> answers,
                    r |-> IF overload = "polygon"
                          THEN getCollisionPointIn2D_polygon(answers, search_backward)
                          ELSE getCollisionPointIn2D_points(answers, search_backward)]
  /\ UNCHANGED <<members, status, tr, apart>>

\* the arguments getTrajectory is called with
TrajectoryEnds ==
  {-1, 0, 3} \cup (IF total_length_ = Indeterminate THEN {} ELSE {total_length_[1]})
Resolutions == {-FromInt(1), 0, 1, FromInt(1), 3}
Offsets == {0, 1}

\* loop conditions that also admit s = end_s
TrajectoryMore_Inclusive(t) ==
  IF t.start_s > t.end_s THEN t.s >= t.end_s ELSE t.s <= t.end_s

\* the loop conditions of getTrajectory: s > end_s when start_s > end_s, and
\* s < end_s otherwise
TrajectoryMore(t) ==
  IF t.start_s > t.end_s THEN t.s > t.end_s ELSE t.s < t.end_s

\* an update that steps by twice the resolution
TrajectoryNextS_Twice(t) ==
  IF t.start_s > t.end_s THEN t.s - 2 * Abs(t.resolution)
  ELSE t.s + 2 * Abs(t.resolution)

\* the loop bodies' update of s
TrajectoryNextS(t) ==
  IF t.start_s > t.end_s THEN t.s - Abs(t.resolution) ELSE t.s + Abs(t.resolution)

\* getTrajectory(start_s, end_s, resolution, offset) is entered
TrajectoryCall ==
  /\ Ready
  /\ \E start_s \in TrajectoryEnds, end_s \in TrajectoryEnds,
        resolution \in Resolutions, offset \in Offsets :
       tr' = [pc |-> "loop", start_s |-> start_s, end_s |-> end_s,
              resolution |-> resolution, offset |-> offset,
              s |-> start_s, ret |-> <<>>]
  /\ call' = NoCall
  /\ UNCHANGED <<members, status, apart>>

TrajectoryResult(t, outcome, ret) ==
  [op |-> "trajectory", start_s |-> t.start_s, end_s |-> t.end_s,
   resolution |-> t.resolution, offset |-> t.offset,
   r |-> [outcome |-> outcome, value |-> ret]]

\* one iteration of getTrajectory's loop, or its last emplace_back and return
TrajectoryStep ==
  /\ tr.pc = "loop"
  /\ \E total_length \in TotalLengthReads :
       LET more == TrajectoryMore(tr)
           p == getPointOffset(IF more THEN tr.s ELSE tr.end_s, tr.offset, total_length)
       IN IF p.outcome # "ok"
          THEN /\ call' = TrajectoryResult(tr, p.outcome, <<>>)
               /\ tr' = Idle
          ELSE IF more
          THEN /\ Len(tr.ret) < MaxRet
               /\ tr' = [tr EXCEPT !.ret = Append(tr.ret, p.at), !.s = TrajectoryNextS(tr)]
               /\ call' = call
          ELSE /\ call' = TrajectoryResult(tr, "ok", Append(tr.ret, p.at))
               /\ tr' = Idle
  /\ UNCHANGED <<members, status, apart>>

Next ==
  \/ Constructor
  \/ Resolve
  \/ Query
  \/ GlobalS
  \/ Collision
  \/ CollisionWithLine
  \/ ProjectPose
  \/ MaximumCurvature
  \/ Bounds
  \/ Polygon
  \/ TrajectoryCall
  \/ TrajectoryStep
  \/ Return

Spec == Init /\ [][Next]_vars

---------------------------------------------------------------------------
(* Properties *)

Constructed == status = "constructed"

\* a curve spline: three control points or more
IsCurve == Constructed /\ Len(control_points) >= 3

TotalLength == total_length_[1]

\* the lengths of the segments before the one with (0-based) index i
LengthBefore(i) == SumSeq(length_list_, i)

\* a completed call of getCurveIndexAndS on a curve spline
ResolveDone == IsCurve /\ call.op = "resolve"

\* C1: constructing a spline from an empty control-point list fails with an
\* error, so every constructed spline has at least one control point.
C1_EmptyControlPointsRejected ==
  /\ (status # "new" /\ Len(control_points) = 0) => status = "failed"
  /\ Constructed => Len(control_points) >= 1

C1_Witness ==
  /\ Len(control_points) = 0
  /\ status = "failed"
  /\ call = [op |-> "construct", error |-> "Control points are empty"]

\* C2: for n >= 3 control points, construction succeeds (checkConnection raises
\* nothing) and leaves n - 1 segments, segment i being control_points[i] at
\* t = 0 and control_points[i + 1] at t = 1 on each of the axes x, y, z.
C2_SegmentsJoinControlPoints ==
  (status # "new" /\ Len(control_points) >= 3) =>
    /\ Constructed
    /\ Len(curves_) = Len(control_points) - 1
    /\ \A i \in 1..Len(curves_) :
         /\ HermiteGetPoint(curves_[i], 0) = control_points[i]
         /\ HermiteGetPoint(curves_[i], 1) = control_points[i + 1]

C2_Witness ==
  /\ Constructed
  /\ Len(control_points) = MaxPoints
  /\ Len(curves_) = MaxPoints - 1
  /\ \E i \in 1..Len(curves_) : curves_[i].x[1] # 0

\* C3: on a curve spline, for 0 <= s <= totalLength, getCurveIndexAndS(s)
\* returns a segment index in 0 .. n - 2 and a local s between 0 and the
\* length of that segment.
C3_ResolveInRange ==
  (ResolveDone /\ 0 <= call.s /\ call.s <= TotalLength) =>
    /\ call.r.outcome = "ok"
    /\ call.r.index \in 0..(Len(control_points) - 2)
    /\ 0 <= call.r.s
    /\ call.r.s <= length_list_[call.r.index + 1]

C3_Witness ==
  /\ ResolveDone
  /\ 0 < call.s /\ call.s < TotalLength
  /\ call.r.index = 2
  /\ call.r.s > 0
  /\ length_list_[1] > 0

\* C4: on a curve spline, for 0 <= s <= totalLength, getSInSplineCurve applied
\* to the pair getCurveIndexAndS(s) returns is s again.
C4_ResolveRoundTrip ==
  (ResolveDone /\ 0 <= call.s /\ call.s <= TotalLength) =>
    getSInSplineCurve(call.r.index, call.r.s) = [outcome |-> "ok", value |-> call.s]

C4_Witness ==
  /\ ResolveDone
  /\ call.s = TotalLength
  /\ call.r.index = 2
  /\ LengthBefore(2) > 0
  /\ call.r.s > 0

\* C5: getCurveIndexAndS does not clamp.  For s < 0 it returns (0, s); on a
\* spline with segments, for s >= totalLength it returns the last segment's
\* index and s - (totalLength - the last segment's length), a local s that
\* exceeds the last segment's length by exactly s - totalLength.
C5_ResolveDoesNotClamp ==
  (Constructed /\ call.op = "resolve") =>
    /\ call.s < 0 => call.r = [outcome |-> "ok", index |-> 0, s |-> call.s]
    /\ (Len(curves_) > 0 /\ call.s >= TotalLength) =>
         /\ call.r.outcome = "ok"
         /\ call.r.index = Len(curves_) - 1
         /\ call.r.s = call.s - (TotalLength - length_list_[Len(curves_)])
         /\ call.r.s - length_list_[Len(curves_)] = call.s - TotalLength

C5_Witness ==
  /\ ResolveDone
  /\ call.s > TotalLength
  /\ TotalLength > length_list_[Len(curves_)]
  /\ call.r.s > length_list_[Len(curves_)]

\* C6: getSInSplineCurve(curve_index, s) returns the lengths of the segments
\* before curve_index plus s when curve_index is below the number of
\* segments, and throws for every other curve_index, so for every index on a
\* spline without segments.
C6_GlobalSSumsEarlierLengths ==
  (Constructed /\ call.op = "globalS") =>
    IF call.curve_index < Len(curves_)
    THEN call.r = [outcome |-> "ok", value |-> LengthBefore(call.curve_index) + call.s]
    ELSE call.r.outcome = "error"

C6_Witness ==
  /\ Constructed /\ call.op = "globalS"
  /\ Len(curves_) = 3
  /\ call.curve_index = 2
  /\ length_list_[1] > 0 /\ length_list_[2] > 0 /\ length_list_[3] > 0
  /\ call.r.outcome = "ok"

\* a call of getTrajectory that has returned its vector
TrajectoryDone == IsCurve /\ call.op = "trajectory" /\ call.r.outcome = "ok"

\* point(s, offset) on a curve spline
PointAt(s, offset) == getPointOffset(s, offset, TotalLength).at

\* the stepped points in closed form: K of them, K the number of k >= 0 with s_k
\* strictly before end_s, and then the point at end_s
SteppedTrajectory(start_s, end_s, resolution, offset) ==
  LET K == IF start_s = end_s THEN 0
           ELSE CeilDiv(Abs(end_s - start_s), Abs(resolution))
      s_k(k) == IF start_s > end_s THEN start_s - k * Abs(resolution)
                ELSE start_s + k * Abs(resolution)
  IN [j \in 1..(K + 1) |->
        IF j <= K THEN PointAt(s_k(j - 1), offset) ELSE PointAt(end_s, offset)]

\* C7: getTrajectory(start_s, end_s, resolution, offset) returns the points at
\* s_k = start_s - k |resolution| when start_s > end_s, and at
\* s_k = start_s + k |resolution| otherwise, for every k >= 0 whose s_k is
\* strictly before end_s, and then once the point at end_s; the sign of
\* resolution plays no part, and start_s = end_s gives the point at end_s alone.
C7_TrajectorySteps ==
  TrajectoryDone =>
    /\ call.r.value =
         SteppedTrajectory(call.start_s, call.end_s, call.resolution, call.offset)
    /\ call.start_s = call.end_s => call.r.value = <<PointAt(call.end_s, call.offset)>>

C7_Witness ==
  /\ TrajectoryDone
  /\ call.start_s = 3 /\ call.end_s = 0
  /\ call.resolution = -FromInt(1)
  /\ call.offset = 1
  /\ Len(call.r.value) = 3
  /\ TotalLength > 3

\* C8: on a curve spline, getTrajectory(0, totalLength, 1.0, 0) returns
\* ceil(totalLength) + 1 points, the last of them point(totalLength).
C8_FullTrajectoryCount ==
  (/\ TrajectoryDone
   /\ call.start_s = 0 /\ call.end_s = TotalLength
   /\ call.resolution = FromInt(1) /\ call.offset = 0) =>
    /\ Len(call.r.value) = CeilDiv(TotalLength, FromInt(1)) + 1
    /\ call.r.value[Len(call.r.value)] = getPoint(TotalLength, TotalLength).at

C8_Witness ==
  /\ TrajectoryDone
  /\ call.start_s = 0 /\ call.end_s = TotalLength
  /\ call.resolution = FromInt(1) /\ call.offset = 0
  /\ TotalLength = FromInt(2) + 1
  /\ Len(call.r.value) = 4

\* what is left of the way to end_s: positive exactly while the loop goes on
Remaining(t) ==
  IF t.start_s > t.end_s
  THEN (IF t.s > t.end_s THEN t.s - t.end_s ELSE 0)
  ELSE (IF t.s < t.end_s THEN t.end_s - t.s ELSE 0)

\* C9: getTrajectory terminates for every start_s, end_s and resolution: each
\* iteration of its loop brings s nearer to end_s, so the loop ends after
\* finitely many iterations.
C9_TrajectoryTerminates ==
  [][(tr.pc = "loop" /\ tr'.pc = "loop") => Remaining(tr') < Remaining(tr)]_vars

\* the segments that report a hit
HitSegments == {k \in 1..Len(curves_) : call.answers[k] # None}

\* C10: on a curve spline, either overload of getCollisionPointIn2D returns
\* the hit of the lowest-indexed segment that reports one when search_backward
\* is false, of the highest-indexed one when it is true, as
\* getSInSplineCurve(segment index, segment-local value); it returns nullopt
\* exactly when no segment reports a hit.
C10_CollisionFirstHitSegment ==
  (IsCurve /\ call.op = "collision") =>
    /\ call.r.outcome = "ok"
    /\ call.r.value = None <=> HitSegments = {}
    /\ HitSegments # {} =>
         LET k == IF call.search_backward THEN Max(HitSegments) ELSE Min(HitSegments)
         IN call.r.value = Some(getSInSplineCurve(k - 1, call.answers[k][1]).value)

C10_Witness ==
  /\ IsCurve /\ call.op = "collision"
  /\ call.search_backward
  /\ call.overload = "polygon"
  /\ Cardinality(HitSegments) = 2
  /\ Max(HitSegments) = 3
  /\ call.r.value # None
  /\ call.r.value[1] > MaxHit

\* C11: on the spline of (0,0,0), (10,0,0), (20,0,0), (30,0,0),
\* getCollisionPointIn2D with the line from (15,-5,0) to (15,5,0), searching
\* forward, returns the arc length 15: the line crosses the middle of the
\* second segment, at the segment's parameter 0.5.
C11_CollinearCollisionAt15 ==
  (/\ Constructed /\ control_points = CollinearScenario
   /\ call.op = "collision_line"
   /\ call.point0 = Pt(15, -5, 0) /\ call.point1 = Pt(15, 5, 0)
   /\ ~call.search_backward) =>
    call.r = [outcome |-> "ok", value |-> Some(FromInt(15))]

C13_DegenerateQueriesStayInRange ==
  (Constructed /\ Len(control_points) <= 2 /\ call.op = "query") =>
    call.r.outcome # "out_of_range"

\* the values the polygon's edges answer in the call
EdgeValues == {call.answers[k][1] : k \in {j \in 1..Len(call.answers) : call.answers[j] # None}}

\* C14: on a spline of exactly 2 control points,
\* getCollisionPointIn2D(polygon, search_backward) intersects
\* line_segments_[0] with every edge of the polygon and returns the least of
\* the intersection values searching forward, the greatest searching
\* backward, and nothing exactly when no edge intersects.
C14_LineSplinePolygonMinMax ==
  (/\ Constructed /\ Len(control_points) = 2
   /\ call.op = "collision" /\ call.overload = "polygon") =>
    /\ call.r.outcome = "ok"
    /\ (call.r.value = None) <=> (EdgeValues = {})
    /\ call.r.value # None =>
         /\ call.r.value[1] \in EdgeValues
         /\ \A v \in EdgeValues :
              IF call.search_backward THEN v <= call.r.value[1]
              ELSE call.r.value[1] <= v

C14_Witness ==
  /\ Constructed /\ Len(control_points) = 2
  /\ call.op = "collision" /\ call.overload = "polygon"
  /\ ~call.search_backward
  /\ call.answers = <<Some(2), Some(1)>>
  /\ call.r.value = Some(1)

\* C15: on a spline of exactly 2 control points,
\* getCollisionPointIn2D(point0, point1, search_backward) returns an
\* intersection position whenever line_segments_[0] and the segment from
\* point0 to point1 intersect in 2D, and nothing otherwise.
C15_LineSplineSegmentIntersection ==
  (/\ Constructed /\ Len(control_points) = 2
   /\ call.op = "collision_line") =>
    /\ call.r.outcome = "ok"
    /\ (call.r.value # None) <=>
         SegmentsIntersect2D(line_segments_[1],
                             [start_point |-> call.point0, end_point |-> call.point1])

\* C16: on a spline of exactly 1 control point, both overloads of
\* getCollisionPointIn2D return nothing, for every input and either search
\* direction, and raise no error.
C16_PointSplineNoCollision ==
  (/\ Constructed /\ Len(control_points) = 1
   /\ call.op \in {"collision", "collision_line"}) =>
    call.r = [outcome |-> "ok", value |-> None]

C16_Witness ==
  /\ Constructed /\ Len(control_points) = 1
  /\ call.op = "collision" /\ call.overload = "polygon"
  /\ call.search_backward
  /\ call.r.value = None

\* the segments (1-based) whose own projection succeeds in the call
ProjectingSegments == {k \in 1..Len(curves_) : call.answers[k] # None}

\* C17: getSValue(pose, threshold_distance) asks the segments in increasing
\* index order and returns, for the lowest-indexed segment whose projection
\* succeeds, the sum of the lengths of the earlier segments plus that
\* segment's local value; later segments are not asked, and the result is
\* nothing exactly when no segment's projection succeeds.
C17_ProjectPoseFirstSegment ==
  (Constructed /\ call.op = "getSValue") =>
    IF ProjectingSegments = {}
    THEN call.r = [value |-> None, examined |-> Len(curves_)]
    ELSE LET first == Min(ProjectingSegments)
         IN /\ call.r.value = Some(LengthBefore(first - 1) + call.answers[first][1])
            /\ call.r.examined = first

C17_Witness ==
  /\ IsCurve /\ call.op = "getSValue"
  /\ Len(curves_) >= 3
  /\ length_list_[1] > 0
  /\ call.answers[1] = None /\ call.answers[2] = Some(1) /\ call.answers[3] = Some(0)
  /\ call.r.value = Some(length_list_[1] + 1)
  /\ call.r.examined = 2

\* both bounds returned for the same arguments on a curve spline
BoundsDone ==
  /\ IsCurve /\ call.op = "bounds"
  /\ call.left.outcome = "ok" /\ call.right.outcome = "ok"

\* the arc length of sample i (from 0) of num_points
SampleS(i, num_points) == (i * TotalLength) \div num_points

\* C18: getLeftBounds and getRightBounds each return num_points + 1 points
\* for num_points >= 1, the i-th sampled at s = i * totalLength / num_points,
\* the first at s = 0 and the last at s = totalLength, at the same places for
\* both.
C18_BoundsSamples ==
  (BoundsDone /\ call.num_points >= 1) =>
    /\ Len(call.left.points) = call.num_points + 1
    /\ Len(call.right.points) = call.num_points + 1
    /\ \A i \in 0..call.num_points :
         /\ call.left.points[i + 1].from = PointAt(SampleS(i, call.num_points), 0)
         /\ call.right.points[i + 1].from = PointAt(SampleS(i, call.num_points), 0)
    /\ call.left.points[1].from = PointAt(0, 0)
    /\ call.left.points[call.num_points + 1].from = PointAt(TotalLength, 0)

C18_Witness ==
  /\ BoundsDone
  /\ control_points = CollinearScenario
  /\ call.num_points = 3
  /\ Len(call.left.points) = 4
  /\ call.left.points[2].from = <<1, 0>>
  /\ call.right.points[3].from = <<2, 0>>
  /\ call.left.points[4].from = <<2, FromInt(10)>>

\* C19: for every width, num_points and sample i, the i-th left and right
\* bound are laid from the same point of the curve along the same unit
\* direction by width / 2 to opposite sides, so they are width apart in 2D,
\* and both have the z of the curve plus z_offset.
C19_BoundsOpposite ==
  BoundsDone =>
    \A i \in 1..Len(call.right.points) :
      LET l == call.left.points[i]
          r == call.right.points[i]
      IN /\ l.from = r.from
         /\ l.along = r.along
         /\ l.along = l.from
         /\ r.lateral = Half(call.width)
         /\ l.lateral = -r.lateral
         /\ r.lateral - l.lateral = call.width
         /\ l.z_offset = call.z_offset
         /\ r.z_offset = call.z_offset

C19_Witness ==
  /\ BoundsDone
  /\ call.width = FromInt(3)
  /\ call.num_points = 2
  /\ call.z_offset = FromInt(1)
  /\ call.left.points[2].lateral = -3
  /\ call.right.points[2].lateral = 3

\* a call of getPolygon that has returned its points on a curve spline
PolygonDone == IsCurve /\ call.op = "polygon" /\ call.r.outcome = "ok"

\* C20: getPolygon(width, num_points, z_offset) returns 6 * num_points points:
\* for each i in 0..num_points-1, in increasing i, right[i], left[i],
\* right[i+1], left[i], left[i+1], right[i+1], left and right being what
\* getLeftBounds and getRightBounds return for the same arguments.
C20_PolygonTriangles ==
  PolygonDone =>
    LET left == getLeftBounds(call.width, call.num_points, call.z_offset,
                              TotalLength).points
        right == getRightBounds(call.width, call.num_points, call.z_offset,
                                TotalLength).points
    IN /\ Len(call.r.points) = 6 * call.num_points
       /\ \A i \in 0..(call.num_points - 1) :
            SubSeq(call.r.points, 6 * i + 1, 6 * i + 6) =
              <<right[i + 1], left[i + 1], right[i + 2],
                left[i + 1], left[i + 2], right[i + 2]>>

C20_Witness ==
  /\ PolygonDone
  /\ call.width = FromInt(1)
  /\ call.num_points = 2
  /\ Len(call.r.points) = 12
  /\ call.r.points[1].lateral = 1
  /\ call.r.points[2].lateral = -1
  /\ call.r.points[4] # call.r.points[1]

\* C21: getMaximum2DCurvature() returns the greatest of the cached per-segment
\* curvature maxima on a spline of 3 or more control points, and fails with an
\* error on every spline of 1 or 2 control points, whose table is empty.
C21_MaximumCurvature ==
  (Constructed /\ call.op = "getMaximum2DCurvature") =>
    IF Len(control_points) <= 2
    THEN maximum_2d_curvatures_ = <<>> /\ call.r.outcome = "error"
    ELSE /\ Len(maximum_2d_curvatures_) = Len(curves_)
         /\ call.r.outcome = "ok"
         /\ \E i \in 1..Len(call.values) : call.r.value = Some(call.values[i])
         /\ \A i \in 1..Len(call.values) : call.values[i] <= call.r.value[1]

C21_Witness ==
  /\ IsCurve /\ call.op = "getMaximum2DCurvature"
  /\ call.values = <<1, 2, 0>>
  /\ call.r.value = Some(2)

SegmentsHolding(s) ==
  {i \in 0..(Len(curves_) - 1) : LengthBefore(i) <= s /\ s < LengthBefore(i + 1)}

\* C25: on a spline of 3 or more control points and for every s with
\* 0 <= s < totalLength, exactly one segment i has (lengths before i) <= s <
\* (lengths through i), also when some segments have length 0, and the scan of
\* getCurveIndexAndS finds it: the error after the scan is not reached.
C25_ScanFindsTheSegment ==
  (ResolveDone /\ 0 <= call.s /\ call.s < TotalLength) =>
    /\ Cardinality(SegmentsHolding(call.s)) = 1
    /\ call.r.outcome = "ok"
    /\ call.r.index \in SegmentsHolding(call.s)

C25_Witness ==
  /\ ResolveDone
  /\ Len(curves_) = 3
  /\ length_list_[1] = 0 /\ length_list_[2] = 0 /\ length_list_[3] > 0
  /\ call.s = 0
  /\ call.r.outcome = "ok" /\ call.r.index = 2

\* the derivative of a segment at t = 0 and at t = 1 on one axis, from its
\* coefficients <<a, b, c, d>>
DerivativeAtStart(co) == co[3]
DerivativeAtEnd(co) == 3 * co[1] + 2 * co[2] + co[3]

\* C26: on a spline of n >= 3 control points the first derivative is
\* continuous at every interior control point: for each i in 1..n-2 (from 0)
\* the derivative of segment i-1 at t = 1 equals that of segment i at t = 0 on
\* every axis, both being (control_points[i+1] - control_points[i-1]) / 2.
\* Stated of the spline as the constructor leaves it.
C26_TangentContinuity ==
  (call.op = "construct" /\ IsCurve) =>
    \A k \in 2..(Len(control_points) - 1) :
      /\ DerivativeAtEnd(curves_[k - 1].x) = DerivativeAtStart(curves_[k].x)
      /\ DerivativeAtEnd(curves_[k - 1].y) = DerivativeAtStart(curves_[k].y)
      /\ DerivativeAtEnd(curves_[k - 1].z) = DerivativeAtStart(curves_[k].z)
      /\ DerivativeAtStart(curves_[k].x) = Half(control_points[k + 1].x - control_points[k - 1].x)
      /\ DerivativeAtStart(curves_[k].y) = Half(control_points[k + 1].y - control_points[k - 1].y)
      /\ DerivativeAtStart(curves_[k].z) = Half(control_points[k + 1].z - control_points[k - 1].z)

C26_Witness ==
  /\ call.op = "construct"
  /\ IsCurve
  /\ Len(control_points) = 4
  /\ control_points = <<Pt(0, 0, 0), Pt(1, 0, 0), Pt(1, 1, 1), Pt(3, 1, 0)>>
  /\ DerivativeAtStart(curves_[2].y) = 1
  /\ DerivativeAtEnd(curves_[2].x) = FromInt(1)

\* the second derivative of a segment at t = 0 and at t = 1 on one axis
SecondDerivativeAtStart(co) == 2 * co[2]
SecondDerivativeAtEnd(co) == 6 * co[1] + 2 * co[2]

\* x' y'' - y' x'', the numerator of the 2D curvature, at the start and at the
\* end of a segment
CurvatureNumeratorAtStart(curve) ==
  DerivativeAtStart(curve.x) * SecondDerivativeAtStart(curve.y)
    - DerivativeAtStart(curve.y) * SecondDerivativeAtStart(curve.x)
CurvatureNumeratorAtEnd(curve) ==
  DerivativeAtEnd(curve.x) * SecondDerivativeAtEnd(curve.y)
    - DerivativeAtEnd(curve.y) * SecondDerivativeAtEnd(curve.x)

\* the 2D cross product of q - p and r - q
Turn2D(p, q, r) == (q.x - p.x) * (r.y - q.y) - (q.y - p.y) * (r.x - q.x)

\* C27 as stated: on a spline of n >= 3 control points the first segment's
\* start tangent and the last segment's end tangent come from the two control
\* points at that end alone (another third point leaves them as they are), and
\* the 2D curvature is zero at the start of the first segment and at the end
\* of the last.
C27_EndsOneSidedAndFlat ==
  IsCurve =>
    LET n == Len(control_points)
    IN /\ \A q \in PointSet :
            /\ FirstCoefficients(control_points[1].x, control_points[2].x, q.x)[3]
                 = DerivativeAtStart(curves_[1].x)
            /\ FirstCoefficients(control_points[1].y, control_points[2].y, q.y)[3]
                 = DerivativeAtStart(curves_[1].y)
       /\ CurvatureNumeratorAtStart(curves_[1]) = 0
       /\ CurvatureNumeratorAtEnd(curves_[n - 1]) = 0

\* C27, amended: the first segment's start tangent is
\* (-3 p[0] + 4 p[1] - p[2]) / 2 and the last segment's end tangent is
\* (p[n-3] - 4 p[n-2] + 3 p[n-1]) / 2, each from the three control points
\* nearest that end, and x' y'' - y' x'' there is the 2D cross product of the
\* two steps between those three points: the curvature at an end is zero
\* only where they are collinear in 2D.
C27_EndTangentsFromThreePoints ==
  (call.op = "construct" /\ IsCurve) =>
    LET n == Len(control_points)
        p0 == control_points[1]
        p1 == control_points[2]
        p2 == control_points[3]
        qm == control_points[n - 2]
        q0 == control_points[n - 1]
        q1 == control_points[n]
    IN /\ DerivativeAtStart(curves_[1].x) = Half(-3 * p0.x + 4 * p1.x - p2.x)
       /\ DerivativeAtStart(curves_[1].y) = Half(-3 * p0.y + 4 * p1.y - p2.y)
       /\ DerivativeAtStart(curves_[1].z) = Half(-3 * p0.z + 4 * p1.z - p2.z)
       /\ DerivativeAtEnd(curves_[n - 1].x) = Half(qm.x - 4 * q0.x + 3 * q1.x)
       /\ DerivativeAtEnd(curves_[n - 1].y) = Half(qm.y - 4 * q0.y + 3 * q1.y)
       /\ DerivativeAtEnd(curves_[n - 1].z) = Half(qm.z - 4 * q0.z + 3 * q1.z)
       /\ CurvatureNumeratorAtStart(curves_[1]) = Turn2D(p0, p1, p2)
       /\ CurvatureNumeratorAtEnd(curves_[n - 1]) = Turn2D(qm, q0, q1)

C27_Witness ==
  /\ call.op = "construct"
  /\ IsCurve
  /\ control_points = <<Pt(0, 0, 0), Pt(1, 0, 0), Pt(1, 1, 1), Pt(3, 1, 0)>>
  /\ CurvatureNumeratorAtStart(curves_[1]) # 0
  /\ CurvatureNumeratorAtEnd(curves_[3]) # 0
  /\ DerivativeAtStart(curves_[1].y) = -1

----------------------------------------------------------------------------
(* JobList.  A job is kept with what its two functions have been asked: how  *)
(* often func_on_update and func_on_cleanup were called.  The update         *)
(* functions are those of the tests, which return true from their k-th call  *)
(* on (k = 1: always true).  Every job is appended as exclusive, as in the   *)
(* tests.                                                                    *)

JobTypes == {"UNKOWN", "other"}
JobEvents == {"POST_UPDATE", "other"}
Exclusives == {TRUE}
ReturnsTrueAt == 1..MaxReturnsTrueAt

\* Job(func_on_update, func_on_cleanup, type, exclusive, event): queued, and
\* none of its functions called yet
Job(returns_true_at, type, exclusive, event) ==
  [returns_true_at |-> returns_true_at, type |-> type, exclusive |-> exclusive,
   event |-> event, queued |-> TRUE, update_count |-> 0, cleanup_count |-> 0]

\* what func_on_update returns on the call that makes job.update_count calls
UpdateFuncReturns(job) == job.update_count >= job.returns_true_at

\* the job leaves the queue and func_on_cleanup is called
Inactivate(job) ==
  [job EXCEPT !.queued = FALSE, !.cleanup_count = @ + 1]

\* an update that calls func_on_update and never func_on_cleanup
OnUpdate_NoCleanup(job) ==
  IF ~job.queued THEN job
  ELSE LET called == [job EXCEPT !.update_count = @ + 1]
       IN IF UpdateFuncReturns(called) THEN [called EXCEPT !.queued = FALSE]
          ELSE called

\* the update of one job: func_on_update is called, and where it returns true
\* the job is cleaned up and leaves the queue
OnUpdate(job) ==
  IF ~job.queued THEN job
  ELSE LET called == [job EXCEPT !.update_count = @ + 1]
       IN IF UpdateFuncReturns(called) THEN Inactivate(called) ELSE called

\* JobList::update(step_time, event)
JobListUpdate(list, event) ==
  [i \in 1..Len(list) |-> IF list[i].event = event THEN OnUpdate(list[i]) ELSE list[i]]

\* an append that leaves the queued jobs of the same type in place
JobListAppend_KeepsEarlier(list, returns_true_at, type, exclusive, event) ==
  Append(list, Job(returns_true_at, type, exclusive, event))

\* JobList::append(func_on_update, func_on_cleanup, type, exclusive, event)
JobListAppend(list, returns_true_at, type, exclusive, event) ==
  Append([i \in 1..Len(list) |->
            IF exclusive /\ list[i].queued /\ list[i].type = type
            THEN Inactivate(list[i]) ELSE list[i]],
         Job(returns_true_at, type, exclusive, event))

\* a call of job_list.append
AppendJob ==
  /\ Len(list_) < MaxJobs
  /\ \E returns_true_at \in ReturnsTrueAt, type \in JobTypes,
        exclusive \in Exclusives, event \in JobEvents :
       /\ list_' = JobListAppend(list_, returns_true_at, type, exclusive, event)
       /\ job_call' = [op |-> "append", type |-> type, exclusive |-> exclusive]
  /\ UNCHANGED <<splineVars, nodeVars, declarationVars>>

\* a call of job_list.update
UpdateJobs ==
  /\ \E event \in JobEvents :
       /\ list_' = JobListUpdate(list_, event)
       /\ job_call' = [op |-> "update", event |-> event]
  /\ UNCHANGED <<splineVars, nodeVars, declarationVars>>

\* no spline is under construction while the other components run
InitNoSpline ==
  /\ control_points = <<>>
  /\ line_segments_ = <<>>
  /\ curves_ = <<>>
  /\ length_list_ = <<>>
  /\ total_length_ = Indeterminate
  /\ maximum_2d_curvatures_ = <<>>
  /\ status = "none"
  /\ call = NoCall
  /\ tr = Idle

InitJobs == InitNoSpline /\ InitJobList /\ InitNode /\ InitScope

NextJobs ==
  \/ AppendJob
  \/ UpdateJobs

SpecJobs == InitJobs /\ [][NextJobs]_vars

----------------------------------------------------------------------------
(* FollowLaneAction::tick.  Distances are in the half-unit arithmetic of the *)
(* spline, times in whole steps.  What the tick asks of the map and of the   *)
(* other entities (the right-of-way entities, the three distances, the next  *)
(* status, whether the spline of the centre points can be built) are inputs; *)
(* an input the tick never reads is left at its default.                    *)

Requests == {"none", "follow_lane", "lane_change"}
VehicleLength == FromInt(4)
Margin == FromInt(5)
StopDistance == FromInt(1)
CurrentTime == 1
StepTime == 1

FrontMargin == StopDistance + VehicleLength + Margin
StopLineMargin == StopDistance + Half(VehicleLength) + Margin
ConflictingMargin == VehicleLength + StopDistance

FrontDistances == {None, Some(FrontMargin), Some(FrontMargin + 1)}
StopLineDistances == {None, Some(StopLineMargin), Some(StopLineMargin + 1)}
ConflictingDistances == {None, Some(ConflictingMargin - 1), Some(ConflictingMargin)}

EntityStatuses ==
  [time : {0}, twist : {-FromInt(1), FromInt(2)}, accel : {FromInt(1)},
   lanelet_pose : {"on_route"}, lanelet_pose_valid : BOOLEAN]

NextStatuses == {"updated", "end_of_road", "error"}

AllTickInputs ==
  [inputs_ok : BOOLEAN, request : Requests, entity_status : EntityStatuses,
   see_around : BOOLEAN, right_of_way : 0..1, front : FrontDistances,
   stopline : StopLineDistances, conflicting : ConflictingDistances,
   next_status : NextStatuses, spline_ok : BOOLEAN]

RequestRefused(in) == in.request # "none" /\ in.request # "follow_lane"
FrontWithin(in) == in.front # None /\ in.front[1] <= FrontMargin
StopLineWithin(in) == in.stopline # None /\ in.stopline[1] <= StopLineMargin
ConflictingWithin(in) == in.conflicting # None /\ in.conflicting[1] < ConflictingMargin

\* the conditions under which the tick is to return FAILURE
FailureCondition(in) ==
  \/ RequestRefused(in)
  \/ /\ in.see_around
     /\ \/ in.right_of_way # 0
        \/ FrontWithin(in)
        \/ StopLineWithin(in)
        \/ ConflictingWithin(in)

\* the inputs the tick does not read are at their defaults
ReadByTick(in) ==
  /\ (~in.inputs_ok) =>
       /\ in.request = "none" /\ ~in.see_around
       /\ in.entity_status.twist = FromInt(2) /\ in.entity_status.lanelet_pose_valid
  /\ (~in.inputs_ok \/ RequestRefused(in) \/ ~in.see_around) =>
       in.right_of_way = 0 /\ in.front = None /\ in.stopline = None /\ in.conflicting = None
  /\ (in.right_of_way # 0 \/ FrontWithin(in)) =>
       in.stopline = None /\ in.conflicting = None
  /\ (~in.inputs_ok \/ FailureCondition(in) \/ ~in.entity_status.lanelet_pose_valid) =>
       in.next_status = "updated"
  /\ (~in.inputs_ok \/ FailureCondition(in) \/ ~in.entity_status.lanelet_pose_valid
        \/ in.next_status = "error" \/ in.entity_status.twist < 0) =>
       in.spline_ok

TickInputs == {in \in AllTickInputs : ReadByTick(in)}

Written(value) == [set |-> TRUE, value |-> value]

setOutput(bb, port, value) == [bb EXCEPT ![port] = Written(value)]

\* a stop that keeps the twist of the entity
stopAtEndOfRoad_KeepsTwist(entity_status) ==
  [entity_status EXCEPT !.time = CurrentTime + StepTime, !.accel = 0]

\* ActionNode::stopAtEndOfRoad
stopAtEndOfRoad(entity_status) ==
  [entity_status EXCEPT !.time = CurrentTime + StepTime, !.twist = 0, !.accel = 0]

\* ActionNode::calculateEntityStatusUpdated: the planned twist and accel and
\* the new lanelet pose are kept by name
calculateEntityStatusUpdated(in) ==
  IF in.next_status = "end_of_road" THEN stopAtEndOfRoad(in.entity_status)
  ELSE [time |-> CurrentTime + StepTime, twist |-> "twist_new", accel |-> "accel_new",
        lanelet_pose |-> "new_lanelet_pose",
        lanelet_pose_valid |-> in.entity_status.lanelet_pose_valid]

\* FollowLaneAction::calculateWaypoints
calculateWaypoints(in) ==
  IF ~in.entity_status.lanelet_pose_valid
  THEN [outcome |-> "error", error |-> "failed to assign lane"]
  ELSE IF in.entity_status.twist >= 0
       THEN IF in.spline_ok
            THEN [outcome |-> "ok", waypoints |-> "trajectory"]
            ELSE [outcome |-> "error", error |-> "spline"]
       ELSE [outcome |-> "ok", waypoints |-> "empty"]

Returned(node_status, written, bb) ==
  [outcome |-> node_status, error |-> "none", written |-> written, blackboard |-> bb]

Thrown(error, written, bb) ==
  [outcome |-> "error", error |-> error, written |-> written, blackboard |-> bb]

\* the steps of the tick after its FAILURE checks
tick_Proceed(in, bb) ==
  IF ~in.entity_status.lanelet_pose_valid
  THEN Returned("RUNNING", <<"updated_status">>,
                setOutput(bb, "updated_status", stopAtEndOfRoad(in.entity_status)))
  ELSE IF in.next_status = "error"
  THEN Thrown("failed to calculate next status", <<>>, bb)
  ELSE LET b1 == setOutput(bb, "updated_status", calculateEntityStatusUpdated(in))
           waypoints == calculateWaypoints(in)
       IN IF waypoints.outcome = "error"
          THEN Thrown(waypoints.error, <<"updated_status">>, b1)
          ELSE Returned("RUNNING", <<"updated_status", "waypoints", "obstacle">>,
                        setOutput(setOutput(b1, "waypoints", waypoints.waypoints),
                                  "obstacle", None))

\* a tick that writes "updated_status" before it checks for the failures
tick_WritesFirst(in, bb) ==
  IF ~in.inputs_ok THEN Thrown("failed to get input", <<>>, bb)
  ELSE LET b0 == setOutput(bb, "updated_status", stopAtEndOfRoad(in.entity_status))
       IN IF FailureCondition(in)
          THEN Returned("FAILURE", <<"updated_status">>, b0)
          ELSE tick_Proceed(in, bb)

\* FollowLaneAction::tick
tick(in, bb) ==
  IF ~in.inputs_ok THEN Thrown("failed to get input", <<>>, bb)
  ELSE IF in.request # "none" /\ in.request # "follow_lane"
  THEN Returned("FAILURE", <<>>, bb)
  ELSE IF in.see_around /\ in.right_of_way # 0
  THEN Returned("FAILURE", <<>>, bb)
  ELSE IF in.see_around /\ in.front # None
          /\ in.front[1] <= StopDistance + VehicleLength + Margin
  THEN Returned("FAILURE", <<>>, bb)
  ELSE IF in.see_around /\ in.stopline # None
          /\ in.stopline[1] <= StopDistance + Half(VehicleLength) + Margin
  THEN Returned("FAILURE", <<>>, bb)
  ELSE IF in.see_around /\ in.conflicting # None
          /\ in.conflicting[1] < VehicleLength + StopDistance
  THEN Returned("FAILURE", <<>>, bb)
  ELSE tick_Proceed(in, bb)

\* one tick of the node
Tick ==
  /\ \E in \in TickInputs :
       LET result == tick(in, blackboard)
       IN /\ blackboard' = result.blackboard
          /\ ticked' = [outcome |-> result.outcome, error |-> result.error,
                        written |-> result.written, inputs |-> in]
  /\ UNCHANGED <<splineVars, jobVars, declarationVars>>

InitFollowLane == InitNoSpline /\ InitJobList /\ InitNode /\ InitScope

NextFollowLane == Tick

SpecFollowLane == InitFollowLane /\ [][NextFollowLane]_vars

\* C28: a tick that returns FAILURE writes no output port and leaves every
\* port as it was; the tick returns FAILURE exactly when the request is
\* neither "none" nor "follow_lane" or, seeing around, a right-of-way entity
\* is present or the front entity, the stop line or a conflicting entity is
\* within its margin; every other tick that returns returns RUNNING with
\* "updated_status" written first.
C28_FailureWritesNothing ==
  [][(ticked'.outcome # "none" /\ ticked'.outcome # "error") =>
       IF FailureCondition(ticked'.inputs)
       THEN /\ ticked'.outcome = "FAILURE"
            /\ ticked'.written = <<>>
            /\ blackboard' = blackboard
       ELSE /\ ticked'.outcome = "RUNNING"
            /\ ticked'.written # <<>>
            /\ ticked'.written[1] = "updated_status"
            /\ blackboard'["updated_status"].set]_vars

C28_Witness ==
  /\ ticked.outcome = "FAILURE"
  /\ ticked.inputs.request = "follow_lane"
  /\ ticked.inputs.stopline = Some(StopLineMargin)
  /\ blackboard["updated_status"].set
  /\ blackboard["waypoints"].set

\* C29: with an invalid lanelet pose and no failure condition the tick
\* returns RUNNING, writes only "updated_status", and what it writes is the
\* entity status with the time at current_time + step_time, twist and accel
\* zero and every other field as it was; no tick raises "failed to assign
\* lane".
C29_InvalidPoseStops ==
  ticked.outcome # "none" =>
    /\ ticked.error # "failed to assign lane"
    /\ (/\ ticked.inputs.inputs_ok
        /\ ~ticked.inputs.entity_status.lanelet_pose_valid
        /\ ~FailureCondition(ticked.inputs)) =>
         /\ ticked.outcome = "RUNNING"
         /\ ticked.written = <<"updated_status">>
         /\ blackboard["updated_status"].set
         /\ LET out == blackboard["updated_status"].value
                entity_status == ticked.inputs.entity_status
            IN /\ out.time = CurrentTime + StepTime
               /\ out.twist = 0
               /\ out.accel = 0
               /\ out.lanelet_pose = entity_status.lanelet_pose
               /\ out.lanelet_pose_valid = entity_status.lanelet_pose_valid

C29_Witness ==
  /\ ticked.outcome = "RUNNING"
  /\ ~ticked.inputs.entity_status.lanelet_pose_valid
  /\ ticked.inputs.see_around
  /\ ticked.inputs.front = Some(FrontMargin + 1)
  /\ blackboard["updated_status"].value.twist = 0
  /\ ~blackboard["waypoints"].set

----------------------------------------------------------------------------
(* ParameterDeclaration built with a scope.  A name is the sequence of its   *)
(* characters.  What each constraint group answers for the value, and        *)
(* whether the value can be cast to the parameter type, are inputs.  The two *)
(* arguments of scope.insert are evaluated in either order.                  *)

ParameterNames ==
  { <<"O", "S", "C">>, <<"O", "S", "C", "a">>, <<"O", "S">>, <<"a", "O", "S", "C">>,
    <<"a", " ", "b">>, <<"$", "a">>, <<"a", "'">>, <<"\"", "a">> }

Symbols == {" ", "$", "'", "\""}

ParameterValues == {"1"}

ConstraintGroups ==
  UNION {[1..n -> BOOLEAN] : n \in 0..MaxConstraintGroups}

ArgumentOrders == {"name_first", "value_first"}

\* name.substr(0, 3)
Substr03(name) == SubSeq(name, 1, IF Len(name) < 3 THEN Len(name) ELSE 3)

includes(name, chars) == \E each \in chars : \E i \in 1..Len(name) : name[i] = each

\* a check that refuses the names holding one of the symbols
checkName_RejectsSymbols(name) ==
  IF Substr03(name) = <<"O", "S", "C">> \/ includes(name, Symbols)
  THEN [outcome |-> "error", error |-> "SyntaxError"]
  ELSE [outcome |-> "ok", value |-> name]

\* checkName
checkName(name) ==
  IF Substr03(name) = <<"O", "S", "C">>
  THEN [outcome |-> "error", error |-> "SyntaxError"]
  ELSE IF includes(name, Symbols)
  THEN [outcome |-> "ok", value |-> name]
  ELSE [outcome |-> "ok", value |-> name]

\* ParameterDeclaration::castValueByParameterType
castValueByParameterType(in) ==
  IF in.cast_ok THEN [outcome |-> "ok", value |-> in.value]
  ELSE [outcome |-> "error", error |-> "cast"]

\* ParameterDeclaration::checkValue: the first group that is asked casts the
\* value
checkValue(in) ==
  IF in.constraint_groups = <<>> THEN [outcome |-> "ok", value |-> TRUE]
  ELSE IF castValueByParameterType(in).outcome = "error"
  THEN castValueByParameterType(in)
  ELSE [outcome |-> "ok",
        value |-> \E i \in 1..Len(in.constraint_groups) : in.constraint_groups[i]]

\* ParameterDeclaration::evaluate
evaluate(in) ==
  IF checkValue(in).outcome = "error" THEN checkValue(in)
  ELSE IF checkValue(in).value THEN castValueByParameterType(in)
  ELSE [outcome |-> "error", error |-> "common::Error"]

\* Scope::insert
ScopeInsert(s, name, value) == Append(s, [name |-> name, value |-> value])

\* ParameterDeclaration::ParameterDeclaration(message, scope) and (node, scope)
ParameterDeclaration(in, s) ==
  LET name == checkName(in.name)
      value == evaluate(in)
      first == IF in.order = "name_first" THEN name ELSE value
      second == IF in.order = "name_first" THEN value ELSE name
  IN IF first.outcome = "error"
     THEN [outcome |-> "error", error |-> first.error, scope |-> s]
     ELSE IF second.outcome = "error"
     THEN [outcome |-> "error", error |-> second.error, scope |-> s]
     ELSE [outcome |-> "ok", error |-> "none",
           scope |-> ScopeInsert(s, name.value, value.value)]

\* one declaration
Declare ==
  /\ Len(scope) < MaxScope
  /\ \E name \in ParameterNames, value \in ParameterValues,
        constraint_groups \in ConstraintGroups, cast_ok \in BOOLEAN,
        order \in ArgumentOrders :
       LET in == [name |-> name, value |-> value,
                  constraint_groups |-> constraint_groups, cast_ok |-> cast_ok,
                  order |-> order]
           result == ParameterDeclaration(in, scope)
       IN /\ scope' = result.scope
          /\ declared' = [outcome |-> result.outcome, error |-> result.error,
                          name |-> name, value |-> value,
                          constraint_groups |-> constraint_groups,
                          cast_ok |-> cast_ok]
  /\ UNCHANGED <<splineVars, jobVars, nodeVars>>

InitParameter == InitNoSpline /\ InitJobList /\ InitNode /\ InitScope

NextParameter == Declare

SpecParameter == InitParameter /\ [][NextParameter]_vars

StartsWithOSC(name) ==
  Len(name) >= 3 /\ name[1] = "O" /\ name[2] = "S" /\ name[3] = "C"

SatisfiesConstraints(groups) ==
  groups = <<>> \/ \E i \in 1..Len(groups) : groups[i]

\* C30: a declaration changes the scope only by inserting its parameter, and
\* only when the name does not start with "OSC" and the value satisfies one
\* constraint group or there is none; otherwise the construction fails and
\* the scope is as before.  A name holding a space, a dollar sign or a quote
\* is inserted as any other name.
C30_InsertsOnlyCheckedParameters ==
  [][declared'.outcome # "none" =>
       LET accepted == /\ ~StartsWithOSC(declared'.name)
                       /\ SatisfiesConstraints(declared'.constraint_groups)
       IN /\ scope' # scope =>
               /\ accepted
               /\ declared'.outcome = "ok"
               /\ scope' = Append(scope, [name |-> declared'.name,
                                          value |-> declared'.value])
          /\ ~accepted => (declared'.outcome = "error" /\ scope' = scope)
          /\ declared'.outcome = "error" => scope' = scope
          /\ (accepted /\ declared'.cast_ok) =>
               (declared'.outcome = "ok" /\ scope' # scope)]_vars

C30_Witness ==
  /\ declared.outcome = "ok"
  /\ declared.name = <<"$", "a">>
  /\ declared.constraint_groups = <<FALSE, TRUE>>
  /\ Len(scope) = 2
  /\ scope[1].name = <<"a", " ", "b">>
  /\ scope[2].name = <<"$", "a">>

====
